---- MODULE Spec2Model ----
(***************************************************************************)
(* A model of pyethereum/blocks.py: the account ledger of a Block (indexed *)
(* accessors over the state trie, code store, storage sub-tries,           *)
(* snapshot/revert) and the Block constructor, serializer and hash.        *)
(*                                                                         *)
(* Representation.  A Python 2 str is a sequence of byte values; '' is     *)
(* <<>>.  The digest sha3(x) is collision free: it is the one-element      *)
(* tuple <<x>>, so it is never '' and two digests are equal exactly when   *)
(* their preimages are.  Preimages carry a leading tag ("blob", "state",   *)
(* "storage", "rlp") so that values of different shapes are never compared *)
(* component by component.  The database shared by every Trie and by the   *)
(* code store is a set of <<key, value>> entries.                          *)
(***************************************************************************)
EXTENDS Integers, Sequences, FiniteSets, TLC

VARIABLES
    db,            \* the one DB behind STATEDB_DIR: self.state.db, shared by every Trie
    state_root,    \* self.state.root
    gas_consumed,  \* self.gas_consumed
    snaps,         \* the snapshots the caller holds, oldest first
    last,          \* the last call: its name, arguments and result
    given,         \* per account, the code last given to set_code, per slot the value last
                   \* given to set_storage_data, and the number of increment_nonce calls
    block,         \* the Block object's attributes, <<B>>; <<>> while there is no object
    copy,          \* the Block built from the decoded serialization, <<B>>; <<>> if none
    pc             \* the set_code call in progress: the statement it last ran and its
                   \* arguments; idle when no call is in progress

vars == <<db, state_root, gas_consumed, snaps, last, given, block, copy, pc>>

-----------------------------------------------------------------------------
(* Bounds of the model *)

\* the store holds at most this many entries
MaxEntries == 3
\* the same, where only storage is written
MaxStorageEntries == 5
\* the same, where code is written
MaxCodeEntries == 5
\* the caller holds at most this many snapshots
MaxSnaps == 2
\* the caller never raises gas_consumed beyond this
MaxGas == 1
\* balances and nonces are kept at or below this
MaxValue == 2
MaxNonce == 258
MaxFrameEntries == 5
MaxFormEntries == 2
MaxGenesisEntries == 3

-----------------------------------------------------------------------------
(* Program constants *)

ACCT_RLP_LENGTH == 4
NONCE_INDEX == 0
BALANCE_INDEX == 1
CODE_INDEX == 2
STORAGE_INDEX == 3
\* len(address) == 40 selects the hex form
HEX_ADDRESS_LENGTH == 40
\* the difficulty of the genesis header, 2 ** 23
GENESIS_DIFFICULTY == 8388608
\* the radix of a byte string
BYTE_RADIX == 256

BLANK_NODE == <<>>

-----------------------------------------------------------------------------
(* utils: integers, hex text, digest *)

RECURSIVE decode_int(_)
decode_int(s) ==
    IF s = <<>> THEN 0
    ELSE decode_int(SubSeq(s, 1, Len(s) - 1)) * BYTE_RADIX + s[Len(s)]

RECURSIVE encode_int(_)
encode_int(n) ==
    IF n <= 0 THEN <<>>
    ELSE Append(encode_int(n \div BYTE_RADIX), n % BYTE_RADIX)

\* the character code of hex digit d, lower case
HexChar(d) == IF d < 10 THEN 48 + d ELSE 87 + d

\* the value of the character code c as a hex digit, -1 when it is none
HexVal(c) ==
    IF c \in 48..57 THEN c - 48
    ELSE IF c \in 97..102 THEN c - 87
    ELSE IF c \in 65..70 THEN c - 55
    ELSE -1

\* s.encode('hex')
encode_hex(s) ==
    [i \in 1..(2 * Len(s)) |->
        IF i % 2 = 1 THEN HexChar(s[(i + 1) \div 2] \div 16)
        ELSE HexChar(s[i \div 2] % 16)]

\* s.decode('hex') succeeds
is_hex(s) == Len(s) % 2 = 0 /\ \A i \in 1..Len(s) : HexVal(s[i]) >= 0

\* s.decode('hex'), for is_hex(s)
decode_hex(s) ==
    [i \in 1..(Len(s) \div 2) |-> HexVal(s[2 * i - 1]) * 16 + HexVal(s[2 * i])]

sha3(x) == <<x>>

-----------------------------------------------------------------------------
(* trie.DB: the key-value store *)

DbHas(d, key) == \E e \in d : e[1] = key

\* db.get(key): '' when the key is absent
DbGet(d, key) ==
    IF DbHas(d, key) THEN (CHOOSE e \in d : e[1] = key)[2] ELSE <<>>

\* db.put(key, value)
DbPut(d, key, value) == {e \in d : e[1] # key} \cup {<<key, value>>}

-----------------------------------------------------------------------------
(* trie.Trie: a trie is its root; the node at a root holds the whole mapping *)

EmptyMap == [k \in {} |-> <<>>]

\* the node at a non-blank root is in the store
TrieResolves(d, root) == root = BLANK_NODE \/ DbHas(d, root)

\* the key -> value mapping of the trie at root
TrieMap(d, root) ==
    IF root = BLANK_NODE THEN EmptyMap ELSE DbGet(d, root)[2]

\* Trie.get(key): '' when the key is absent
TrieGet(d, root, key) ==
    LET m == TrieMap(d, root) IN IF key \in DOMAIN m THEN m[key] ELSE <<>>

\* the root of the trie holding mapping m
TrieRootOf(kind, m) == IF DOMAIN m = {} THEN BLANK_NODE ELSE sha3(<<kind, m>>)

\* the store after the trie holding mapping m is written
TrieStore(d, kind, m) ==
    IF DOMAIN m = {} THEN d ELSE DbPut(d, TrieRootOf(kind, m), <<kind, m>>)

\* Trie.update(key, value): the new mapping
TrieUpdated(d, root, key, value) ==
    LET m == TrieMap(d, root)
    IN  [k \in DOMAIN m \cup {key} |-> IF k = key THEN value ELSE m[k]]

\* Trie.delete(key): the new mapping
TrieDeleted(d, root, key) ==
    LET m == TrieMap(d, root) IN [k \in DOMAIN m \ {key} |-> m[k]]

-----------------------------------------------------------------------------
(* Inputs of the model *)

\* the binary address whose bytes are all b
BinAddress(b) == [i \in 1..(HEX_ADDRESS_LENGTH \div 2) |-> b]

\* the accounts of the model, in binary form
Addresses == {BinAddress(17), BinAddress(34)}

\* what a caller passes as an address: one account in binary form, the other in hex form
AddressArgs == {BinAddress(17), encode_hex(BinAddress(34))}

\* the address most calls of SpecRevert are made on
First == BinAddress(17)

Deltas == {-2, -1, 0, 1}
Balances == {0, 2}
Codes == {<<96>>, <<96, 0>>}
StorageKeys == {0, 1}
StorageValues == {0, 1, 2}

-----------------------------------------------------------------------------
(* Block: the ledger.  S is the pair [root |-> self.state.root, db |-> self.state.db] *)

\* the address in binary form
\* the address used as it was passed
Bin_as_passed(address) == address

Bin(address) ==
    IF Len(address) = HEX_ADDRESS_LENGTH THEN decode_hex(address) ELSE address

\* the default record with a nonce of one
acct_of_nonce_one(S, address) ==
    LET v == TrieGet(S.db, S.root, Bin(address))
    IN  IF v = <<>> THEN [i \in 1..ACCT_RLP_LENGTH |-> IF i = 1 THEN <<1>> ELSE <<>>]
        ELSE v

\* self.state.get(address) or ['', '', '', '']
acct_of(S, address) ==
    LET v == TrieGet(S.db, S.root, Bin(address))
    IN  IF v = <<>> THEN [i \in 1..ACCT_RLP_LENGTH |-> <<>>] ELSE v

get_index(S, address, index) == acct_of(S, address)[index + 1]

\* an accessor that stores the record it read
after_read_materialised(S, address) ==
    LET m == TrieUpdated(S.db, S.root, Bin(address), acct_of(S, address))
    IN  [root |-> TrieRootOf("state", m), db |-> TrieStore(S.db, "state", m)]

\* the ledger after an accessor ran on the address: get_index and the accessors
\* built on it assign nothing and update nothing
after_read(S, address) == S

\* set_index leaving out a record whose fields are all empty
set_index_skipping_empty(S, address, index, value) ==
    LET acct == [acct_of(S, address) EXCEPT ![index + 1] = value]
        m == TrieUpdated(S.db, S.root, Bin(address), acct)
    IN  IF \A i \in 1..ACCT_RLP_LENGTH : acct[i] = <<>>
        THEN S
        ELSE [root |-> TrieRootOf("state", m), db |-> TrieStore(S.db, "state", m)]

\* set_index writing a record that keeps only the field it sets
set_index_fresh_record(S, address, index, value) ==
    LET acct == [i \in 1..ACCT_RLP_LENGTH |-> IF i = index + 1 THEN value ELSE <<>>]
        m == TrieUpdated(S.db, S.root, Bin(address), acct)
    IN  [root |-> TrieRootOf("state", m), db |-> TrieStore(S.db, "state", m)]

set_index(S, address, index, value) ==
    LET acct == [acct_of(S, address) EXCEPT ![index + 1] = value]
        m == TrieUpdated(S.db, S.root, Bin(address), acct)
    IN  [root |-> TrieRootOf("state", m), db |-> TrieStore(S.db, "state", m)]

\* delta_index refusing a result of zero as well
delta_index_off_by_one(S, address, index, value) ==
    LET acct == acct_of(S, address)
        new == decode_int(acct[index + 1]) + value
        m == TrieUpdated(S.db, S.root, Bin(address),
                         [acct EXCEPT ![index + 1] = encode_int(new)])
    IN  IF new <= 0
        THEN [ret |-> FALSE, S |-> S]
        ELSE [ret |-> TRUE,
              S |-> [root |-> TrieRootOf("state", m),
                     db |-> TrieStore(S.db, "state", m)]]

delta_index(S, address, index, value) ==
    LET acct == acct_of(S, address)
        new == decode_int(acct[index + 1]) + value
        m == TrieUpdated(S.db, S.root, Bin(address),
                         [acct EXCEPT ![index + 1] = encode_int(new)])
    IN  IF new < 0
        THEN [ret |-> FALSE, S |-> S]
        ELSE [ret |-> TRUE,
              S |-> [root |-> TrieRootOf("state", m),
                     db |-> TrieStore(S.db, "state", m)]]

get_nonce(S, address) == decode_int(get_index(S, address, NONCE_INDEX))

\* increment_nonce adding two
increment_nonce_by_two(S, address) == delta_index(S, address, NONCE_INDEX, 2)

increment_nonce(S, address) == delta_index(S, address, NONCE_INDEX, 1)

get_balance(S, address) == decode_int(get_index(S, address, BALANCE_INDEX))

set_balance(S, address, value) ==
    set_index(S, address, BALANCE_INDEX, encode_int(value))

delta_balance(S, address, value) == delta_index(S, address, BALANCE_INDEX, value)

\* a code blob as the store holds it
Blob(value) == <<"blob", value>>

\* the bytes db.get returned for a code hash
BlobBytes(r) == IF r = <<>> THEN <<>> ELSE r[2]

get_code(S, address) ==
    LET codehash == get_index(S, address, CODE_INDEX)
    IN  IF codehash # <<>> THEN BlobBytes(DbGet(S.db, codehash)) ELSE <<>>

\* set_code without the blob write
set_code_without_put(S, address, value) ==
    set_index(S, address, CODE_INDEX, sha3(Blob(value)))

\* set_code linking the hash where it should write the blob
set_code_linking_first(S, address, value) ==
    set_index(S, address, CODE_INDEX, sha3(Blob(value)))

\* the first statement of set_code: self.state.db.put(sha3(value), value)
set_code_put(S, address, value) ==
    [root |-> S.root, db |-> DbPut(S.db, sha3(Blob(value)), Blob(value))]

\* the second statement of set_code: self.state.db.commit()
set_code_commit(S) == S

\* the last statement of set_code: self.set_index(address, CODE_INDEX, sha3(value))
set_code_link(S, address, value) ==
    set_index(S, address, CODE_INDEX, sha3(Blob(value)))

set_code(S, address, value) ==
    set_code_link(set_code_commit(set_code_put(S, address, value)), address, value)

\* utils.coerce_to_bytes of an integer
coerce_to_bytes(index) == encode_int(index)

\* the root of Trie(STATEDB_DIR, self.get_index(address, STORAGE_INDEX))
get_storage(S, address) == get_index(S, address, STORAGE_INDEX)

get_storage_data(S, address, index) ==
    decode_int(TrieGet(S.db, get_storage(S, address), coerce_to_bytes(index)))

\* set_storage_data writing a zero instead of deleting the slot
set_storage_data_stores_zero(S, address, index, val) ==
    LET t == get_storage(S, address)
        m == TrieUpdated(S.db, t, coerce_to_bytes(index), encode_int(val))
        d == TrieStore(S.db, "storage", m)
    IN  set_index([root |-> S.root, db |-> d], address, STORAGE_INDEX,
                  TrieRootOf("storage", m))

\* set_storage_data without the set_index that links the new root
set_storage_data_unlinked(S, address, index, val) ==
    LET t == get_storage(S, address)
        m == IF val # 0
             THEN TrieUpdated(S.db, t, coerce_to_bytes(index), encode_int(val))
             ELSE TrieDeleted(S.db, t, coerce_to_bytes(index))
    IN  [root |-> S.root, db |-> TrieStore(S.db, "storage", m)]

set_storage_data(S, address, index, val) ==
    LET t == get_storage(S, address)
        m == IF val # 0
             THEN TrieUpdated(S.db, t, coerce_to_bytes(index), encode_int(val))
             ELSE TrieDeleted(S.db, t, coerce_to_bytes(index))
        d == TrieStore(S.db, "storage", m)
    IN  set_index([root |-> S.root, db |-> d], address, STORAGE_INDEX,
                  TrieRootOf("storage", m))

account_to_dict(S, address) ==
    LET acct == acct_of(S, address)
        chash == acct[CODE_INDEX + 1]
        stdict == TrieMap(S.db, acct[STORAGE_INDEX + 1])
    IN  [nonce |-> decode_int(acct[NONCE_INDEX + 1]),
         balance |-> decode_int(acct[BALANCE_INDEX + 1]),
         code |-> IF chash # <<>> THEN encode_hex(BlobBytes(DbGet(S.db, chash))) ELSE <<>>,
         storage |-> {<<decode_int(k), decode_int(stdict[k])>> : k \in DOMAIN stdict}]

snapshot(S, gas) == [state |-> S.root, gas |-> gas]

\* revert leaves the gas counter as it is
revert_keeps_gas(S, gas, mysnapshot) == [root |-> mysnapshot.state, gas |-> gas]

\* revert leaves the state root as it is
revert_keeps_root(S, gas, mysnapshot) == [root |-> S.root, gas |-> mysnapshot.gas]

\* self.state.root and self.gas_consumed after revert(mysnapshot)
revert(S, gas, mysnapshot) == [root |-> mysnapshot.state, gas |-> mysnapshot.gas]

-----------------------------------------------------------------------------
(* Python values of headers, transactions and uncles, tagged by their type *)

PyInt(n) == <<"int", n>>
PyStr(b) == <<"str", b>>
PyList(s) == <<"list", s>>

\* the str sha3 returns for the value v
Digest(v) == <<"hash", sha3(v)>>

\* rlp.encode of a nested list of str; rlp.decode is its inverse
rlp_encode(v) == <<"rlp", v>>
rlp_decode(s) == s[2]

\* utils.recursive_int_to_big_endian
RECURSIVE recursive_int_to_big_endian(_)
recursive_int_to_big_endian(v) ==
    IF v[1] = "int" THEN PyStr(encode_int(v[2]))
    ELSE IF v[1] = "list"
    THEN PyList([i \in 1..Len(v[2]) |-> recursive_int_to_big_endian(v[2][i])])
    ELSE v

\* encode_int(v) returns: it raises TypeError on a str
CanEncodeInt(v) == v[1] = "int"
PyEncodeInt(v) == PyStr(encode_int(v[2]))

\* v.decode('hex') returns: it raises on text that is not hex, and a digest is not
PyIsHex(v) == v[1] = "str" /\ is_hex(v[2])
PyDecodeHex(v) == PyStr(decode_hex(v[2]))

\* the root a Trie is opened on, from a header field, and back
RootOf(v) == v[2]
PyRoot(root) == IF root = BLANK_NODE THEN PyStr(<<>>) ELSE <<"hash", root>>

\* Transaction(*x), and its serialize(): the fields as the constructor takes them
Transaction(x) == x
tx_serialize(t) == recursive_int_to_big_endian(t)

\* the constructor's header from the fields of a decoded header
cast_block_header_from_rlp_decoded(prevhash, uncles_root, coinbase, state, transactions_root, difficulty, timestamp, extradata, nonce) ==
    PyList(<<prevhash, uncles_root, PyStr(encode_hex(coinbase[2])), state,
             transactions_root, PyInt(decode_int(difficulty[2])),
             PyInt(decode_int(timestamp[2])), extradata, PyInt(decode_int(nonce[2]))>>)

\* cast_block_header_from_rlp_decoded(*header): the exception raised ("" when the
\* call returns) and the header returned; the function takes nine arguments
cast_header(header) ==
    LET h == header[2]
    IN  IF Len(h) # 9 THEN [raised |-> "TypeError", header |-> header]
        ELSE [raised |-> "",
              header |-> cast_block_header_from_rlp_decoded(
                             h[1], h[2], h[3], h[4], h[5], h[6], h[7], h[8], h[9])]

-----------------------------------------------------------------------------
(* Block: construction, serialization, hash.  B is the record of self's attributes *)

\* the attributes __init__ assigns: a header is read by position
block_attrs(header, transaction_list, uncles) ==
    [number |-> PyInt(0),
     prevhash |-> header[2][1],
     uncles_root |-> header[2][2],
     coinbase |-> header[2][3],
     state |-> header[2][4],
     transactions_root |-> header[2][5],
     difficulty |-> header[2][6],
     timestamp |-> header[2][7],
     extradata |-> header[2][8],
     nonce |-> header[2][9],
     transactions |-> [i \in 1..Len(transaction_list[2]) |->
                          Transaction(transaction_list[2][i])],
     uncles |-> uncles]

\* serialize() returns instead of raising
can_serialize(B) ==
    /\ CanEncodeInt(B.number)
    /\ PyIsHex(B.coinbase)
    /\ CanEncodeInt(B.difficulty)
    /\ CanEncodeInt(B.timestamp)
    /\ CanEncodeInt(B.nonce)

\* the txlist of serialize()
serialized_txlist(B) ==
    PyList([i \in 1..Len(B.transactions) |-> tx_serialize(B.transactions[i])])

\* the header of serialize()
serialized_header(B) ==
    PyList(<<PyEncodeInt(B.number),
           B.prevhash,
           Digest(rlp_encode(B.uncles)),
           PyDecodeHex(B.coinbase),
           B.state,
           Digest(rlp_encode(serialized_txlist(B))),
           PyEncodeInt(B.difficulty),
           PyEncodeInt(B.timestamp),
           B.extradata,
           PyEncodeInt(B.nonce)>>)

serialize(B) ==
    rlp_encode(PyList(<<serialized_header(B), serialized_txlist(B), B.uncles>>))

\* hash() over the header alone
hash_of_header(B) == Digest(rlp_encode(serialized_header(B)))

hash(B) == Digest(serialize(B))

\* to_dict() of the block with attributes B on ledger S; the state as the set of
\* <<hex address, account>> pairs
to_dict(B, S) ==
    LET state == TrieMap(S.db, S.root)
        td(s) == TrieMap(S.db, state[s][STORAGE_INDEX + 1])
        o(s) == <<decode_int(state[s][NONCE_INDEX + 1]),
                  decode_int(state[s][BALANCE_INDEX + 1]),
                  state[s][CODE_INDEX + 1],
                  {<<decode_int(k), decode_int(td(s)[k])>> : k \in DOMAIN td(s)}>>
    IN  [number |-> B.number,
         prevhash |-> B.prevhash,
         uncles_root |-> B.uncles_root,
         coinbase |-> B.coinbase,
         state |-> {<<encode_hex(s), o(s)>> : s \in DOMAIN state},
         transactions_root |-> B.transactions_root,
         difficulty |-> B.difficulty,
         timestamp |-> B.timestamp,
         extradata |-> B.extradata,
         nonce |-> B.nonce]

\* Block(...) without the check of the transactions root
block_init_unchecked_transactions(header, transaction_list, uncles, validate, d) ==
    LET B == block_attrs(header, transaction_list, uncles)
    IN  [block |-> B,
         raised |->
            IF ~can_serialize(B) THEN "TypeError"
            ELSE IF ~validate THEN ""
            ELSE IF Digest(rlp_encode(B.uncles)) # B.uncles_root
            THEN "Uncle root hash does not match!"
            ELSE IF RootOf(B.state) # BLANK_NODE /\ DbGet(d, RootOf(B.state)) = <<>>
            THEN "State Merkle root not found in database!"
            ELSE ""]

\* Block(...) without the check of the uncles root
block_init_unchecked_uncles(header, transaction_list, uncles, validate, d) ==
    LET B == block_attrs(header, transaction_list, uncles)
    IN  [block |-> B,
         raised |->
            IF ~can_serialize(B) THEN "TypeError"
            ELSE IF ~validate THEN ""
            ELSE IF Digest(rlp_encode(recursive_int_to_big_endian(transaction_list)))
                        # B.transactions_root
            THEN "Transaction list root hash does not match!"
            ELSE IF RootOf(B.state) # BLANK_NODE /\ DbGet(d, RootOf(B.state)) = <<>>
            THEN "State Merkle root not found in database!"
            ELSE ""]

\* Block(header, transaction_list, uncles, validate) on the store d: the exception it
\* raises ("" when it returns) and the attributes it assigned
block_init(header, transaction_list, uncles, validate, d) ==
    LET B == block_attrs(header, transaction_list, uncles)
    IN  [block |-> B,
         raised |->
            IF ~can_serialize(B) THEN "TypeError"
            ELSE IF ~validate THEN ""
            ELSE IF Digest(rlp_encode(recursive_int_to_big_endian(transaction_list)))
                        # B.transactions_root
            THEN "Transaction list root hash does not match!"
            ELSE IF Digest(rlp_encode(B.uncles)) # B.uncles_root
            THEN "Uncle root hash does not match!"
            ELSE IF RootOf(B.state) # BLANK_NODE /\ DbGet(d, RootOf(B.state)) = <<>>
            THEN "State Merkle root not found in database!"
            ELSE ""]

\* the sentinel header of genesis()
genesis_header ==
    PyList(<<PyStr(<<>>), PyStr(<<>>), PyStr([i \in 1..HEX_ADDRESS_LENGTH |-> 48]),
           PyRoot(BLANK_NODE), PyStr(<<>>), PyInt(GENESIS_DIFFICULTY), PyInt(0), PyStr(<<>>), PyInt(0)>>)

-----------------------------------------------------------------------------
(* What a caller observes *)

Ledger == [root |-> state_root, db |-> db]

\* every accessor, on every account
ViewOf(S) ==
    [a \in Addresses |->
        [nonce |-> get_nonce(S, a),
         balance |-> get_balance(S, a),
         code |-> get_code(S, a),
         storage |-> [k \in StorageKeys |-> get_storage_data(S, a, k)],
         dict |-> account_to_dict(S, a)]]

View == ViewOf(Ledger)

-----------------------------------------------------------------------------
(* The state machine *)

\* the arguments of a constructor call
Args(header, transaction_list, uncles, validate) ==
    [header |-> header, transaction_list |-> transaction_list,
     uncles |-> uncles, validate |-> validate]

\* no constructor call
NoArgs == Args(PyList(<<>>), PyList(<<>>), PyList(<<>>), FALSE)

NoCall ==
    [op |-> "none", address |-> <<>>, key |-> 0, value |-> 0, ret |-> TRUE,
     args |-> NoArgs, raised |-> "", out |-> <<>>]

\* the record of a call on the current state
Call(op, address, key, value, ret) ==
    [NoCall EXCEPT !.op = op, !.address = Bin(address), !.key = key,
                   !.value = value, !.ret = ret]

\* the ledger becomes S
Becomes(S) ==
    /\ state_root' = S.root
    /\ db' = S.db

\* no set_code call is in progress
Idle == [step |-> "idle", address |-> <<>>, value |-> <<>>]

\* nothing was given yet: no code, no storage value but the default 0, no call
NothingGiven ==
    [code |-> [a \in Addresses |-> <<>>],
     storage |-> [a \in Addresses |-> [k \in StorageKeys |-> 0]],
     increments |-> [a \in Addresses |-> 0]]

\* Block(header, [], [], validate=False) on a blank state root and an empty store
Init ==
    /\ db = {}
    /\ state_root = BLANK_NODE
    /\ gas_consumed = 0
    /\ snaps = <<>>
    /\ last = NoCall
    /\ given = NothingGiven
    /\ block = <<block_init(genesis_header, PyList(<<>>), PyList(<<>>), FALSE, {}).block>>
    /\ copy = <<>>
    /\ pc = Idle

SetBalance(address, value) ==
    /\ Becomes(set_balance(Ledger, address, value))
    /\ last' = Call("set_balance", address, 0, value, TRUE)
    /\ UNCHANGED <<gas_consumed, snaps, given, block, copy, pc>>

DeltaBalance(address, value) ==
    LET r == delta_balance(Ledger, address, value)
    IN  /\ Becomes(r.S)
        /\ last' = Call("delta_balance", address, 0, value, r.ret)
        /\ UNCHANGED <<gas_consumed, snaps, given, block, copy, pc>>

IncrementNonce(address) ==
    LET r == increment_nonce(Ledger, address)
    IN  /\ Becomes(r.S)
        /\ last' = Call("increment_nonce", address, 0, 1, r.ret)
        /\ given' = [given EXCEPT !.increments[Bin(address)] = @ + 1]
        /\ UNCHANGED <<gas_consumed, snaps, block, copy, pc>>

SetCode(address, value) ==
    /\ Becomes(set_code(Ledger, address, value))
    /\ last' = Call("set_code", address, 0, Len(value), TRUE)
    /\ given' = [given EXCEPT !.code[Bin(address)] = <<value>>]
    /\ UNCHANGED <<gas_consumed, snaps, block, copy, pc>>

SetStorageData(address, index, val) ==
    /\ Becomes(set_storage_data(Ledger, address, index, val))
    /\ last' = Call("set_storage_data", address, index, val, TRUE)
    /\ given' = [given EXCEPT !.storage[Bin(address)][index] = val]
    /\ UNCHANGED <<gas_consumed, snaps, block, copy, pc>>

\* the caller charges gas: block.gas_consumed += 1
ChargeGas ==
    /\ gas_consumed < MaxGas
    /\ gas_consumed' = gas_consumed + 1
    /\ last' = Call("charge_gas", <<>>, 0, 1, TRUE)
    /\ UNCHANGED <<db, state_root, snaps, given, block, copy, pc>>

\* the caller keeps the snapshot, with what the accessors returned when it was taken
Snapshot ==
    /\ Len(snaps) < MaxSnaps
    /\ snaps' = Append(snaps, [snap |-> snapshot(Ledger, gas_consumed),
                               view |-> View, gas |-> gas_consumed, given |-> given])
    /\ last' = Call("snapshot", <<>>, 0, 0, TRUE)
    /\ UNCHANGED <<db, state_root, gas_consumed, given, block, copy, pc>>

\* what a revert to snapshot entry e has to undo: 1 for a state root that moved since,
\* plus 2 for a gas counter that moved since
Discards(e) ==
    (IF state_root # e.snap.state THEN 1 ELSE 0) + (IF gas_consumed # e.gas THEN 2 ELSE 0)

\* revert to the i-th snapshot held; the later ones are dropped
Revert(i) ==
    LET r == revert(Ledger, gas_consumed, snaps[i].snap)
    IN  /\ state_root' = r.root
        /\ gas_consumed' = r.gas
        /\ snaps' = SubSeq(snaps, 1, i)
        /\ last' = Call("revert", <<>>, i, Discards(snaps[i]), TRUE)
        /\ given' = snaps[i].given
        /\ UNCHANGED <<db, block, copy, pc>>

\* the bound on the store
Small == Cardinality(db) <= MaxEntries

\* Spec: every mutator
Next ==
    \/ \E a \in AddressArgs, v \in Balances : SetBalance(a, v) /\ Small'
    \/ \E a \in AddressArgs, v \in {-1, 0, 1} :
          get_balance(Ledger, a) + v <= MaxValue /\ DeltaBalance(a, v) /\ Small'
    \/ \E a \in AddressArgs :
          get_nonce(Ledger, a) < MaxValue /\ IncrementNonce(a) /\ Small'
    \/ \E a \in AddressArgs : SetCode(a, <<96>>) /\ Small'
    \/ \E a \in AddressArgs, v \in {0, 1} : SetStorageData(a, 0, v) /\ Small'

Spec == Init /\ [][Next]_vars

\* SpecBalance: the balance and nonce calls, over every delta of the model
BalanceNext ==
    \/ \E a \in AddressArgs, v \in Balances : SetBalance(a, v) /\ Small'
    \/ \E a \in AddressArgs, v \in Deltas :
          get_balance(Ledger, a) + v <= MaxValue /\ DeltaBalance(a, v) /\ Small'
    \/ \E a \in AddressArgs :
          get_nonce(Ledger, a) < MaxValue /\ IncrementNonce(a) /\ Small'

SpecBalance == Init /\ [][BalanceNext]_vars

\* SpecCode: code writes, with a balance write between them
CodeNext ==
    \/ \E a \in AddressArgs, c \in Codes :
          SetCode(a, c) /\ Cardinality(db') <= MaxCodeEntries
    \/ \E a \in AddressArgs :
          SetBalance(a, 2) /\ Cardinality(db') <= MaxCodeEntries

SpecCode == Init /\ [][CodeNext]_vars

\* SpecStorage: storage writes only, on a larger store
StorageNext ==
    \E a \in AddressArgs, k \in StorageKeys, v \in StorageValues :
        SetStorageData(a, k, v) /\ Cardinality(db') <= MaxStorageEntries

SpecStorage == Init /\ [][StorageNext]_vars

\* SpecRevert: a mix of the mutators between snapshots and reverts
RevertNext ==
    \/ \E a \in AddressArgs : SetBalance(a, 2) /\ Small'
    \/ \E a \in {First} :
          get_balance(Ledger, a) + 1 <= MaxValue /\ DeltaBalance(a, 1) /\ Small'
    \/ \E a \in {First} :
          get_nonce(Ledger, a) < MaxValue /\ IncrementNonce(a) /\ Small'
    \/ \E a \in {First} : SetCode(a, <<96>>) /\ Small'
    \/ \E a \in {First}, v \in {0, 1} : SetStorageData(a, 0, v) /\ Small'
    \/ ChargeGas
    \/ Snapshot
    \/ \E i \in 1..Len(snaps) : Revert(i)

SpecRevert == Init /\ [][RevertNext]_vars

-----------------------------------------------------------------------------
(* Constructing, serializing and re-parsing blocks *)

\* the store a node starts with: the state trie in which First has balance 2
KnownState == set_balance([root |-> BLANK_NODE, db |-> {}], First, 2)

\* a state root no node of that store has
UnknownRoot == set_balance([root |-> BLANK_NODE, db |-> {}], First, 1).root

\* a transaction as the constructor is given it, with its value field
RawTransaction(value) == PyList(<<PyInt(0), PyStr(First), PyInt(value)>>)

TransactionLists == {PyList(<<RawTransaction(1)>>), PyList(<<RawTransaction(2)>>)}

UncleLists == {PyList(<<>>), PyList(<<PyList(<<PyStr(<<117>>)>>)>>)}

\* the digest a validated header must carry for a list
ListRoot(list) == Digest(rlp_encode(recursive_int_to_big_endian(list)))

Coinbases == {genesis_header[2][3], PyStr(First)}

Headers ==
    {PyList(<<prevhash, uncles_root, coinbase, state, transactions_root,
              PyInt(GENESIS_DIFFICULTY), PyInt(0), PyStr(<<>>), PyInt(0)>>) :
        prevhash \in {Digest(PyStr(<<112>>))},
        uncles_root \in {ListRoot(u) : u \in UncleLists},
        coinbase \in Coinbases,
        state \in {PyRoot(BLANK_NODE), PyRoot(KnownState.root), PyRoot(UnknownRoot)},
        transactions_root \in {ListRoot(t) : t \in TransactionLists}}

\* self, with its state trie at the current root
Self == [block[1] EXCEPT !.state = PyRoot(state_root)]

BlockInit ==
    /\ db = KnownState.db
    /\ state_root = BLANK_NODE
    /\ gas_consumed = 0
    /\ snaps = <<>>
    /\ last = NoCall
    /\ given = NothingGiven
    /\ block = <<>>
    /\ copy = <<>>
    /\ pc = Idle

\* block = Block(header, transaction_list, uncles, validate)
Construct(header, transaction_list, uncles, validate) ==
    LET r == block_init(header, transaction_list, uncles, validate, db)
    IN  /\ block' = IF r.raised = "" THEN <<r.block>> ELSE <<>>
        /\ state_root' = IF r.raised = "" THEN RootOf(r.block.state) ELSE BLANK_NODE
        /\ gas_consumed' = 0
        /\ copy' = <<>>
        /\ last' = [NoCall EXCEPT !.op = "Block", !.raised = r.raised,
                        !.args = Args(header, transaction_list, uncles, validate)]
        /\ UNCHANGED <<db, snaps, given, pc>>

\* block.serialize()
Serialize ==
    /\ block # <<>>
    /\ last' = [NoCall EXCEPT !.op = "serialize", !.out = serialize(Self)]
    /\ UNCHANGED <<db, state_root, gas_consumed, snaps, given, block, copy, pc>>

\* block.hash()
Hash ==
    /\ block # <<>>
    /\ last' = [NoCall EXCEPT !.op = "hash", !.out = hash(Self)]
    /\ UNCHANGED <<db, state_root, gas_consumed, snaps, given, block, copy, pc>>

\* header, transaction_list, uncles = rlp.decode(block.serialize()), then
\* copy = Block(header, transaction_list, uncles, validate=False), the header passed
\* as decoded or through cast_block_header_from_rlp_decoded(*header)
Reparse(cast) ==
    /\ block # <<>>
    /\ LET parts == rlp_decode(serialize(Self))[2]
           c == IF cast THEN cast_header(parts[1])
                        ELSE [raised |-> "", header |-> parts[1]]
           r == IF c.raised # "" THEN [raised |-> c.raised]
                ELSE block_init(c.header, parts[2], parts[3], FALSE, db)
       IN  /\ copy' = IF r.raised = "" THEN <<r.block>> ELSE <<>>
           /\ last' = [NoCall EXCEPT !.op = "reparse", !.raised = r.raised,
                           !.key = IF cast THEN 1 ELSE 0]
    /\ UNCHANGED <<db, state_root, gas_consumed, snaps, given, block, pc>>

\* copy = Block(header, transaction_list, uncles, validate) on the arguments block
\* was just built from, in the other validation mode
Rebuild ==
    /\ block # <<>>
    /\ last.op = "Block"
    /\ LET a == last.args
           validate == ~a.validate
           r == block_init(a.header, a.transaction_list, a.uncles, validate, db)
       IN  /\ copy' = IF r.raised = "" THEN <<r.block>> ELSE <<>>
           /\ last' = [NoCall EXCEPT !.op = "rebuild", !.raised = r.raised,
                           !.args = [a EXCEPT !.validate = validate]]
    /\ UNCHANGED <<db, state_root, gas_consumed, snaps, given, block, pc>>

BlockNext ==
    \/ \E header \in Headers, transaction_list \in TransactionLists,
          uncles \in UncleLists, validate \in BOOLEAN :
          Construct(header, transaction_list, uncles, validate)
    \/ Serialize
    \/ Hash
    \/ \E cast \in BOOLEAN : Reparse(cast)
    \/ Rebuild
    \/ \E v \in Balances :
          block # <<>> /\ TrieResolves(db, state_root) /\ SetBalance(First, v) /\ Small'

SpecBlock == BlockInit /\ [][BlockNext]_vars

-----------------------------------------------------------------------------
(* Reading code back from the store *)

\* the code hashes a caller writes with set_index: of each code, and none
CodeHashes == {sha3(Blob(c)) : c \in Codes} \cup {<<>>}

\* block.set_index(address, index, value)
SetIndex(address, index, value) ==
    /\ Becomes(set_index(Ledger, address, index, value))
    /\ last' = [Call("set_index", address, index, 0, TRUE) EXCEPT !.out = value]
    /\ UNCHANGED <<gas_consumed, snaps, given, block, copy, pc>>

\* block.get_code(address)
GetCode(address) ==
    /\ last' = [Call("get_code", address, 0, 0, TRUE)
                   EXCEPT !.out = get_code(Ledger, address)]
    /\ UNCHANGED <<db, state_root, gas_consumed, snaps, given, block, copy, pc>>

\* block.account_to_dict(address)['code']
AccountToDict(address) ==
    /\ last' = [Call("account_to_dict", address, 0, 0, TRUE)
                   EXCEPT !.out = account_to_dict(Ledger, address).code]
    /\ UNCHANGED <<db, state_root, gas_consumed, snaps, given, block, copy, pc>>

StoreNext ==
    \/ \E a \in AddressArgs, c \in Codes : SetCode(a, c) /\ Small'
    \/ \E a \in AddressArgs, h \in CodeHashes : SetIndex(a, CODE_INDEX, h) /\ Small'
    \/ \E a \in AddressArgs : GetCode(a)
    \/ \E a \in AddressArgs : AccountToDict(a)

SpecStore == Init /\ [][StoreNext]_vars

-----------------------------------------------------------------------------
(* set_code, one statement at a time *)

\* set_code(address, value) is called and runs its first statement
SetCodePut(address, value) ==
    /\ pc = Idle
    /\ Becomes(set_code_put(Ledger, address, value))
    /\ pc' = [step |-> "put", address |-> address, value |-> value]
    /\ UNCHANGED <<gas_consumed, snaps, last, given, block, copy>>

SetCodeCommit ==
    /\ pc.step = "put"
    /\ Becomes(set_code_commit(Ledger))
    /\ pc' = [pc EXCEPT !.step = "commit"]
    /\ UNCHANGED <<gas_consumed, snaps, last, given, block, copy>>

\* set_code runs its last statement and returns
SetCodeLink ==
    /\ pc.step = "commit"
    /\ Becomes(set_code_link(Ledger, pc.address, pc.value))
    /\ pc' = Idle
    /\ last' = Call("set_code", pc.address, 0, Len(pc.value), TRUE)
    /\ given' = [given EXCEPT !.code[Bin(pc.address)] = <<pc.value>>]
    /\ UNCHANGED <<gas_consumed, snaps, block, copy>>

StepNext ==
    \/ \E a \in AddressArgs, c \in Codes : SetCodePut(a, c)
    \/ SetCodeCommit
    \/ SetCodeLink /\ Cardinality(db') <= MaxCodeEntries
    \/ pc = Idle /\ Snapshot
    \/ \E i \in 1..Len(snaps) : pc = Idle /\ Revert(i)

SpecCodeSteps == Init /\ [][StepNext]_vars

-----------------------------------------------------------------------------
(* increment_nonce on fresh addresses *)

\* the other account, as a caller names it in hex
Second == encode_hex(BinAddress(34))

NonceNext ==
    \/ get_nonce(Ledger, First) < MaxNonce /\ IncrementNonce(First)
    \/ IncrementNonce(Second) /\ Small'

SpecNonce == Init /\ [][NonceNext]_vars

-----------------------------------------------------------------------------
(* genesis *)

\* the attributes of the block genesis() constructs
genesis_block == block_init(genesis_header, PyList(<<>>), PyList(<<>>), FALSE, {}).block

\* genesis allocating to the first key only
RECURSIVE genesis_alloc_first_only(_, _)
genesis_alloc_first_only(S, alloc) ==
    IF alloc = <<>> THEN S ELSE set_balance(S, alloc[1][1], alloc[1][2])

\* the loop of genesis(): alloc is initial_alloc as the pairs <<addr, balance>>, in
\* the order the dict yields its keys
RECURSIVE genesis_alloc(_, _)
genesis_alloc(S, alloc) ==
    IF alloc = <<>> THEN S
    ELSE genesis_alloc(set_balance(S, alloc[1][1], alloc[1][2]), Tail(alloc))

\* the allocations a caller passes: the keys of a dict are distinct strings, and the
\* hex and the binary form of one address are two strings
AllocKeys == {First, encode_hex(First), encode_hex(BinAddress(34))}
AllocValues == {0, 50, 100}
Allocs ==
    {<<>>}
    \cup {<<<<k, v>>>> : k \in AllocKeys, v \in AllocValues}
    \cup {<<<<p[1], v1>>, <<p[2], v2>>>> :
            p \in {q \in AllocKeys \X AllocKeys : q[1] # q[2]},
            v1 \in AllocValues, v2 \in AllocValues}

\* block = genesis(initial_alloc)
Genesis(alloc) ==
    /\ block' = <<genesis_block>>
    /\ Becomes(genesis_alloc([root |-> RootOf(genesis_block.state), db |-> db], alloc))
    /\ gas_consumed' = 0
    /\ copy' = <<>>
    /\ last' = [NoCall EXCEPT !.op = "genesis", !.out = alloc]
    /\ UNCHANGED <<snaps, given, pc>>

GenesisNext ==
    \/ \E alloc \in Allocs : Genesis(alloc) /\ Cardinality(db') <= MaxGenesisEntries
    \/ \E validate \in BOOLEAN :
          Construct(genesis_header, PyList(<<>>), PyList(<<>>), validate)
    \/ Hash

SpecGenesis == Init /\ [][GenesisNext]_vars

-----------------------------------------------------------------------------
(* Addresses in hex and in binary form *)

FormsNext ==
    \/ \E a \in AddressArgs, v \in Balances :
          SetBalance(a, v) /\ Cardinality(db') <= MaxFormEntries
    \/ \E a \in AddressArgs, v \in {-1, 1} :
          /\ get_balance(Ledger, a) + v <= MaxValue
          /\ DeltaBalance(a, v)
          /\ Cardinality(db') <= MaxFormEntries
    \/ \E a \in AddressArgs :
          /\ get_nonce(Ledger, a) < MaxValue
          /\ IncrementNonce(a)
          /\ Cardinality(db') <= MaxFormEntries
    \/ \E a \in AddressArgs : SetCode(a, <<96>>) /\ Cardinality(db') <= MaxFormEntries
    \/ \E a \in AddressArgs, v \in {0, 1} :
          SetStorageData(a, 0, v) /\ Cardinality(db') <= MaxFormEntries

SpecForms == Init /\ [][FormsNext]_vars

-----------------------------------------------------------------------------
(* Blocks from decoded headers *)

\* the nine fields of a header as rlp.decode yields them: the coinbase in binary and
\* the integers as big-endian byte strings
raw_header(header) ==
    LET h == header[2]
    IN  PyList(<<h[1], h[2], PyDecodeHex(h[3]), h[4], h[5],
                 PyEncodeInt(h[6]), PyEncodeInt(h[7]), h[8], PyEncodeInt(h[9])>>)

\* the decoded headers a node receives
RawHeaders == {raw_header(h) : h \in {g \in Headers : PyIsHex(g[2][3])}}

\* block = Block(cast_block_header_from_rlp_decoded(*header), transaction_list, uncles,
\* validate)
ConstructCast(header, transaction_list, uncles, validate) ==
    /\ cast_header(header).raised = ""
    /\ Construct(cast_header(header).header, transaction_list, uncles, validate)

RawNext ==
    \/ \E header \in RawHeaders, transaction_list \in TransactionLists,
          uncles \in UncleLists, validate \in BOOLEAN :
          Construct(header, transaction_list, uncles, validate)
    \/ \E header \in RawHeaders, transaction_list \in TransactionLists,
          uncles \in UncleLists, validate \in BOOLEAN :
          ConstructCast(header, transaction_list, uncles, validate)
    \/ Serialize
    \/ Hash

SpecRaw == BlockInit /\ [][RawNext]_vars

-----------------------------------------------------------------------------
(* Every mutator, on accounts that come to hold the same code and storage *)

FrameNext ==
    \/ SetBalance(First, 2) /\ Cardinality(db') <= MaxFrameEntries
    \/ /\ get_balance(Ledger, First) > 0
       /\ DeltaBalance(First, -1)
       /\ Cardinality(db') <= MaxFrameEntries
    \/ /\ get_nonce(Ledger, First) < 1
       /\ IncrementNonce(First)
       /\ Cardinality(db') <= MaxFrameEntries
    \/ \E a \in AddressArgs : SetCode(a, <<96>>) /\ Cardinality(db') <= MaxFrameEntries
    \/ SetCode(First, <<96, 0>>) /\ Cardinality(db') <= MaxFrameEntries
    \/ \E a \in AddressArgs :
          SetStorageData(a, 0, 1) /\ Cardinality(db') <= MaxFrameEntries
    \/ \E v \in {0, 2} :
          SetStorageData(First, 0, v) /\ Cardinality(db') <= MaxFrameEntries
    \/ ChargeGas

SpecFrame == Init /\ [][FrameNext]_vars

-----------------------------------------------------------------------------
(* The accessors *)

Accessors ==
    {"get_index", "get_nonce", "get_balance", "get_code", "get_storage",
     "get_storage_data", "account_to_dict", "to_dict"}

\* what accessor op returns for the address and the index or slot key
Returned(op, S, address, key) ==
    CASE op = "get_index" -> get_index(S, address, key)
      [] op = "get_nonce" -> get_nonce(S, address)
      [] op = "get_balance" -> get_balance(S, address)
      [] op = "get_code" -> get_code(S, address)
      [] op = "get_storage" -> get_storage(S, address)
      [] op = "get_storage_data" -> get_storage_data(S, address, key)
      [] op = "account_to_dict" -> account_to_dict(S, address)
      [] op = "to_dict" -> to_dict(Self, S)

\* the index or slot arguments accessor op takes
KeysOf(op) ==
    IF op = "get_index" THEN 0..(ACCT_RLP_LENGTH - 1)
    ELSE IF op = "get_storage_data" THEN StorageKeys
    ELSE {0}

\* block.<op>(address, key) for an accessor
Accessor(op, address, key) ==
    /\ Becomes(after_read(Ledger, address))
    /\ last' = [Call(op, address, key, 0, TRUE)
                   EXCEPT !.out = <<op, key, Returned(op, Ledger, address, key)>>]
    /\ UNCHANGED <<gas_consumed, snaps, given, block, copy, pc>>

ReadNext ==
    \/ SetBalance(First, 2) /\ Small'
    \/ SetStorageData(First, 0, 1) /\ Small'
    \/ SetCode(First, <<96>>) /\ Small'
    \/ ChargeGas
    \/ \E op \in Accessors, a \in AddressArgs, k \in StorageKeys \cup 0..(ACCT_RLP_LENGTH - 1) :
          k \in KeysOf(op) /\ Accessor(op, a, k)
    \/ snaps = <<>> /\ Snapshot
    \/ Serialize
    \/ Hash

SpecRead == Init /\ [][ReadNext]_vars

-----------------------------------------------------------------------------
(* The claims *)

LedgerNext == [root |-> state_root', db |-> db']

\* C1: a delta_balance call that would make the balance negative returns False and
\* leaves the state root and the store unchanged; every other call returns True and
\* sets the balance to the old balance plus the delta; the balance is never negative.
C1_DeltaBalance ==
    [][\A a \in Addresses :
          (last'.op = "delta_balance" /\ last'.address = a) =>
              LET old == get_balance(Ledger, a)
                  new == get_balance(LedgerNext, a)
              IN  /\ new >= 0
                  /\ IF old + last'.value < 0
                     THEN last'.ret = FALSE /\ state_root' = state_root /\ db' = db
                     ELSE last'.ret = TRUE /\ new = old + last'.value]_vars

\* a delta was rejected on an account that holds a balance
C1_Witness ==
    /\ last.op = "delta_balance"
    /\ last.ret = FALSE
    /\ get_balance(Ledger, last.address) > 0

\* C2: after revert(S), every accessor on every address, and gas_consumed, return
\* what they returned when snapshot S was taken.
C2_RevertRestores ==
    last.op = "revert" =>
        /\ View = snaps[last.key].view
        /\ gas_consumed = snaps[last.key].gas

\* a revert that undid both a moved state root and a moved gas counter, to a snapshot
\* taken on a ledger that was not empty
C2_Witness ==
    /\ last.op = "revert"
    /\ last.value = 3
    /\ state_root # BLANK_NODE

\* C6: snapshots nest: in every state, whatever was written or reverted since, a
\* revert to any snapshot still held yields the accessors' values and the gas counter
\* of the moment that snapshot was taken.
C6_SnapshotsNest ==
    \A j \in 1..Len(snaps) :
        LET r == revert(Ledger, gas_consumed, snaps[j].snap)
        IN  /\ ViewOf([root |-> r.root, db |-> db]) = snaps[j].view
            /\ r.gas = snaps[j].gas

\* the inner of two snapshots was reverted to, undoing a moved state root, and the
\* storage written between the two snapshots is still there
C6_Witness ==
    /\ Len(snaps) = 2
    /\ last.op = "revert"
    /\ last.key = 2
    /\ last.value \in {1, 3}
    /\ View[First].storage[0] # snaps[1].view[First].storage[0]

\* C8: set_storage_data(addr, k, 0) right after set_storage_data(addr, k, v), v # 0,
\* removes slot k from the account's sub-trie, get_storage_data(addr, k) is then 0,
\* and the storage_root is the root of the empty sub-trie if k was the only slot.
C8_DeleteOnZero ==
    [][\A a \in Addresses, k \in StorageKeys :
          ( /\ last.op = "set_storage_data" /\ last.address = a
            /\ last.key = k /\ last.value # 0
            /\ last'.op = "set_storage_data" /\ last'.address = a
            /\ last'.key = k /\ last'.value = 0 ) =>
              LET before == TrieMap(db, get_storage(Ledger, a))
                  after == TrieMap(db', get_storage(LedgerNext, a))
              IN  /\ coerce_to_bytes(k) \notin DOMAIN after
                  /\ get_storage_data(LedgerNext, a, k) = 0
                  /\ DOMAIN before = {coerce_to_bytes(k)} =>
                        get_storage(LedgerNext, a) = TrieRootOf("storage", EmptyMap)]_vars

\* a slot was zeroed, the account's storage is empty, and the store still holds an
\* earlier record of the account with a storage root
C8_Witness ==
    /\ last.op = "set_storage_data"
    /\ last.value = 0
    /\ get_storage(Ledger, last.address) = BLANK_NODE
    /\ \E e \in db :
          /\ e[2][1] = "state"
          /\ last.address \in DOMAIN e[2][2]
          /\ TrieGet(db, e[2][2][last.address][STORAGE_INDEX + 1],
                     coerce_to_bytes(last.key)) # <<>>

\* the sub-trie mapping that holds exactly the non-zero values last given for account a
GivenStorage(a) ==
    LET ks == {k \in StorageKeys : given.storage[a][k] # 0}
    IN  [b \in {coerce_to_bytes(k) : k \in ks} |->
            encode_int(given.storage[a][CHOOSE k \in ks : coerce_to_bytes(k) = b])]

\* C9: after any sequence of set_storage_data calls the account's storage_root is the
\* root of the sub-trie holding the values last written, that sub-trie is in the store,
\* and get_storage_data returns the value last written to the slot, 0 if none was.
C9_StorageRootLinked ==
    \A a \in Addresses :
        /\ get_storage(Ledger, a) = TrieRootOf("storage", GivenStorage(a))
        /\ TrieResolves(db, get_storage(Ledger, a))
        /\ \A k \in StorageKeys : get_storage_data(Ledger, a, k) = given.storage[a][k]

\* a slot that held 1 was overwritten with 2
C9_Witness ==
    /\ last.op = "set_storage_data"
    /\ last.value = 2
    /\ \E e \in db :
          /\ e[2][1] = "state"
          /\ last.address \in DOMAIN e[2][2]
          /\ TrieGet(db, e[2][2][last.address][STORAGE_INDEX + 1],
                     coerce_to_bytes(last.key)) = encode_int(1)

\* C10: get_code(addr) returns the bytes last given to set_code(addr), whatever was
\* set on other addresses since, and two addresses given the same bytes hold the same
\* code_hash.
C10_CodeByContent ==
    \A a \in Addresses :
        given.code[a] # <<>> =>
            /\ get_code(Ledger, a) = given.code[a][1]
            /\ \A b \in Addresses :
                  given.code[b] = given.code[a] =>
                      get_index(Ledger, b, CODE_INDEX) = get_index(Ledger, a, CODE_INDEX)

\* both accounts were given the same code, the second one last
C10_Witness ==
    /\ last.op = "set_code"
    /\ \A a \in Addresses : given.code[a] # <<>> /\ given.code[a] = given.code[First]

\* the header fields, transactions and uncles of B and C are identical
SameBlock(B, C) ==
    /\ B.number = C.number
    /\ B.prevhash = C.prevhash
    /\ B.uncles_root = C.uncles_root
    /\ B.coinbase = C.coinbase
    /\ B.state = C.state
    /\ B.transactions_root = C.transactions_root
    /\ B.difficulty = C.difficulty
    /\ B.timestamp = C.timestamp
    /\ B.extradata = C.extradata
    /\ B.nonce = C.nonce
    /\ B.transactions = C.transactions
    /\ B.uncles = C.uncles

\* B passes every verification of the constructor on the store d
ValidBlock(B, d) ==
    /\ ListRoot(PyList(B.transactions)) = B.transactions_root
    /\ Digest(rlp_encode(B.uncles)) = B.uncles_root
    /\ RootOf(B.state) = BLANK_NODE \/ DbHas(d, RootOf(B.state))

\* C3: decoding serialize(B) of a validly constructed Block B and passing the three
\* values to the constructor with validation disabled yields a Block whose header
\* fields, transaction list and uncle list are identical to B's.
C3_RoundTrip ==
    (last.op = "reparse" /\ ValidBlock(Self, db))
        => (copy # <<>> /\ SameBlock(copy[1], Self))

\* the arguments of a constructor call fail one of the three verifications on store d
Mismatch(a, d) ==
    \/ ListRoot(a.transaction_list) # a.header[2][5]
    \/ Digest(rlp_encode(a.uncles)) # a.header[2][2]
    \/ RootOf(a.header[2][4]) # BLANK_NODE /\ ~DbHas(d, RootOf(a.header[2][4]))

\* C4: a Block constructed with validate=True whose transaction list digest differs
\* from transactions_root, or whose uncle list digest differs from uncles_root, or
\* whose non-blank state root has no node in the store, raises and yields no object.
C4_ValidationRejects ==
    (last.op = "Block" /\ last.args.validate /\ Mismatch(last.args, db))
        => (block = <<>> /\ last.raised # "")

\* a validated construction with the root of the list before one transaction's value
\* was changed, everything else matching, is rejected for the root mismatch
C4_Witness ==
    /\ last.op = "Block"
    /\ last.args.validate
    /\ last.args.transaction_list = PyList(<<RawTransaction(2)>>)
    /\ last.args.header[2][5] = ListRoot(PyList(<<RawTransaction(1)>>))
    /\ Digest(rlp_encode(last.args.uncles)) = last.args.header[2][2]
    /\ last.args.header[2][4] = PyRoot(KnownState.root)
    /\ last.raised = "Transaction list root hash does not match!"
    /\ block = <<>>

\* the account's code hash is not empty and the store has no blob under it
DanglingCode(S, address) ==
    LET codehash == get_index(S, address, CODE_INDEX)
    IN  codehash # <<>> /\ ~DbHas(S.db, codehash)

\* C5: get_code and account_to_dict on an account whose non-empty code_hash has no
\* blob in the code store raise an error instead of returning the empty value.
C5_DanglingCodeRaises ==
    (last.op \in {"get_code", "account_to_dict"} /\ DanglingCode(Ledger, last.address))
        => last.raised # ""


\* C7: hash() returns the digest of serialize(); called twice on an unmodified Block
\* it returns the same value; and a Block built from the same header, transaction
\* list and uncle list in the other validation mode has the same serialize() output
\* and the same hash().
C7_HashOfSerialization ==
    [][/\ last'.op = "hash" => last'.out = Digest(serialize(Self'))
       /\ (last.op = "hash" /\ last'.op = "hash") => last'.out = last.out
       /\ (last'.op = "rebuild" /\ copy' # <<>>)
            => /\ serialize(copy'[1]) = serialize(Self')
               /\ hash(copy'[1]) = hash(Self')]_vars

\* a Block built unvalidated was rebuilt validated from the same arguments
C7_Witness ==
    /\ last.op = "rebuild"
    /\ last.args.validate
    /\ copy # <<>>
    /\ block # <<>>
    /\ Len(copy[1].transactions) = 1

\* the code hash of every account resolves to a blob of the store
CodeResolves(S) ==
    \A a \in Addresses :
        LET codehash == get_index(S, a, CODE_INDEX)
        IN  codehash # <<>> => DbHas(S.db, codehash)

\* C11: set_code writes the blob, commits, and only then updates code_hash, so in
\* every intermediate state of set_code, and in every state reached by set_code,
\* snapshot and revert, every account's non-empty code_hash resolves to a blob of
\* the store; between the statements there is at most a blob nothing refers to.
C11_NoDanglingCode ==
    /\ CodeResolves(Ledger)
    /\ \A j \in 1..Len(snaps) :
          CodeResolves([root |-> snaps[j].snap.state, db |-> db])
    /\ pc.step \in {"put", "commit"} => DbHas(db, sha3(Blob(pc.value)))

\* set_code stopped between its statements with a blob no account refers to yet,
\* while another account already holds code
C11_Witness ==
    /\ pc.step = "commit"
    /\ \A a \in Addresses : get_index(Ledger, a, CODE_INDEX) # sha3(Blob(pc.value))
    /\ \E a \in Addresses : get_index(Ledger, a, CODE_INDEX) # <<>>

\* C12: increment_nonce called N times on a fresh address returns True each time and
\* get_nonce(address) is then N, for every N >= 0.
C12_NonceCounts ==
    /\ \A a \in Addresses : get_nonce(Ledger, a) = given.increments[a]
    /\ last.op = "increment_nonce" => last.ret = TRUE

\* the nonce was incremented past one byte
C12_Witness ==
    /\ last.op = "increment_nonce"
    /\ given.increments[First] = BYTE_RADIX + 1
    /\ get_nonce(Ledger, First) = BYTE_RADIX + 1

\* the accounts the keys of alloc name
AllocAccounts(alloc) == {Bin(alloc[i][1]) : i \in 1..Len(alloc)}

\* what genesis(alloc) is to yield: each key's balance, 0 elsewhere, every nonce 0
GenesisYields(alloc) ==
    /\ block # <<>>
    /\ \A i \in 1..Len(alloc) : get_balance(Ledger, alloc[i][1]) = alloc[i][2]
    /\ \A a \in Addresses \ AllocAccounts(alloc) : get_balance(Ledger, a) = 0
    /\ \A a \in Addresses : get_nonce(Ledger, a) = 0

\* a Block from the sentinel genesis header with validate=True is refused
GenesisUnvalidatedOnly ==
    (last.op = "Block" /\ last.args.header = genesis_header /\ last.args.validate)
        => (block = <<>> /\ last.raised # "")

\* C13 as stated: genesis(alloc) yields get_balance(a) = alloc[a] for every key a of
\* alloc, 0 for every other address and nonce 0 for all, and the sentinel header is
\* refused with validate=True.
C13_GenesisAsStated ==
    /\ last.op = "genesis" => GenesisYields(last.out)
    /\ GenesisUnvalidatedOnly

\* C13, amended: as stated, for an alloc no two keys of which name the same account
\* (the hex and the binary form of one address).
C13_GenesisAllocates ==
    /\ (last.op = "genesis" /\ Cardinality(AllocAccounts(last.out)) = Len(last.out))
            => GenesisYields(last.out)
    /\ GenesisUnvalidatedOnly

\* genesis({A: 100, B: 50})
C13_Witness ==
    /\ last.op = "genesis"
    /\ last.out = <<<<First, 100>>, <<encode_hex(BinAddress(34)), 50>>>>
    /\ get_balance(Ledger, First) = 100
    /\ get_balance(Ledger, BinAddress(34)) = 50

\* the state trie of S has no entry at the address
Absent(S, address) == Bin(address) \notin DOMAIN TrieMap(S.db, S.root)

\* every accessor returns the empty value for the address
ReadsEmpty(S, address) ==
    /\ \A i \in 0..(ACCT_RLP_LENGTH - 1) : get_index(S, address, i) = <<>>
    /\ get_nonce(S, address) = 0
    /\ get_balance(S, address) = 0
    /\ get_code(S, address) = <<>>
    /\ get_storage(S, address) = BLANK_NODE
    /\ \A k \in StorageKeys : get_storage_data(S, address, k) = 0
    /\ account_to_dict(S, address) =
          [nonce |-> 0, balance |-> 0, code |-> <<>>, storage |-> {}]

\* the field of the account record a mutator writes
TargetIndex(op) ==
    CASE op \in {"set_balance", "delta_balance"} -> BALANCE_INDEX
      [] op = "increment_nonce" -> NONCE_INDEX
      [] op = "set_code" -> CODE_INDEX
      [] op = "set_storage_data" -> STORAGE_INDEX

\* what call c, made on an empty record, left at its address in S
WroteFromEmpty(S, c) ==
    /\ \A i \in 0..(ACCT_RLP_LENGTH - 1) \ {TargetIndex(c.op)} :
          get_index(S, c.address, i) = <<>>
    /\ c.op \in {"set_balance", "delta_balance"} => get_balance(S, c.address) = c.value
    /\ c.op = "increment_nonce" => get_nonce(S, c.address) = 1
    /\ c.op = "set_code" => Len(get_code(S, c.address)) = c.value
    /\ c.op = "set_storage_data" =>
          \A k \in StorageKeys :
              get_storage_data(S, c.address, k) = IF k = c.key THEN c.value ELSE 0

Mutators == {"set_balance", "delta_balance", "increment_nonce", "set_code", "set_storage_data"}

\* C14: an address with no entry in the store reads as an account record with all
\* fields empty (nonce and balance 0, code '', every storage slot 0, an empty
\* account_to_dict), and a mutator called on it starts from that record.
C14_AbsentIsDefault ==
    [][\A a \in AddressArgs :
          Absent(Ledger, a) =>
              /\ ReadsEmpty(Ledger, a)
              /\ (last'.op \in Mutators /\ last'.address = Bin(a) /\ last'.ret)
                    => WroteFromEmpty(LedgerNext, last')]_vars

\* set_storage_data created the record of one account while the other is absent
C14_Witness ==
    /\ last.op = "set_storage_data"
    /\ last.value # 0
    /\ get_storage(Ledger, last.address) # BLANK_NODE
    /\ get_index(Ledger, last.address, BALANCE_INDEX) = <<>>
    /\ get_index(Ledger, last.address, NONCE_INDEX) = <<>>
    /\ \E a \in Addresses : Absent(Ledger, a)

\* a value a caller of set_index writes to field index
FieldValue(index) ==
    IF index \in {NONCE_INDEX, BALANCE_INDEX} THEN encode_int(1)
    ELSE IF index = CODE_INDEX THEN sha3(Blob(<<96>>))
    ELSE BLANK_NODE

\* every operation of the ledger gives the same result, and the same ledger, for the
\* binary address b and for its hex form
SameInBothForms(S, b) ==
    LET h == encode_hex(b)
    IN  /\ \A i \in 0..(ACCT_RLP_LENGTH - 1) :
              /\ get_index(S, h, i) = get_index(S, b, i)
              /\ set_index(S, h, i, FieldValue(i)) = set_index(S, b, i, FieldValue(i))
        /\ \A v \in Deltas :
              /\ delta_index(S, h, BALANCE_INDEX, v) = delta_index(S, b, BALANCE_INDEX, v)
              /\ delta_balance(S, h, v) = delta_balance(S, b, v)
        /\ get_balance(S, h) = get_balance(S, b)
        /\ \A v \in Balances : set_balance(S, h, v) = set_balance(S, b, v)
        /\ get_nonce(S, h) = get_nonce(S, b)
        /\ increment_nonce(S, h) = increment_nonce(S, b)
        /\ get_code(S, h) = get_code(S, b)
        /\ \A c \in Codes : set_code(S, h, c) = set_code(S, b, c)
        /\ get_storage(S, h) = get_storage(S, b)
        /\ \A k \in StorageKeys :
              /\ get_storage_data(S, h, k) = get_storage_data(S, b, k)
              /\ \A v \in StorageValues :
                    set_storage_data(S, h, k, v) = set_storage_data(S, b, k, v)
        /\ account_to_dict(S, h) = account_to_dict(S, b)
        /\ \A v \in AllocValues : genesis_alloc(S, <<<<h, v>>>>) = genesis_alloc(S, <<<<b, v>>>>)

\* C15: every ledger operation that takes an address accepts its 40-character hex form
\* and its binary form and treats them as the same account, so a sequence of
\* operations gives the same results and the same state root in either form.
C15_HexAndBinaryAgree == \A b \in Addresses : SameInBothForms(Ledger, b)

\* one account was written under its hex form and one under its binary form, and
\* each reads the same under the other form
C15_Witness ==
    /\ get_balance(Ledger, BinAddress(34)) = 2
    /\ get_nonce(Ledger, encode_hex(First)) = 1

\* C16: a Block constructed from a raw decoded header has integer difficulty,
\* timestamp and nonce and a hex-text coinbase, and serialize() and hash() succeed
\* on it: the constructor decodes the positional header fields.
C16_ConstructorDecodes ==
    (last.op = "Block" /\ last.args.header \in RawHeaders)
        => /\ block # <<>>
           /\ last.raised = ""
           /\ block[1].difficulty[1] = "int"
           /\ block[1].timestamp[1] = "int"
           /\ block[1].nonce[1] = "int"
           /\ PyIsHex(block[1].coinbase)
           /\ can_serialize(block[1])

Targets(c, b, index) == c.address = b /\ TargetIndex(c.op) = index

SharedOnce(index) ==
    \E e \in db :
        /\ e[2][1] = "state"
        /\ Addresses \subseteq DOMAIN e[2][2]
        /\ \A a \in Addresses :
              /\ e[2][2][a][index + 1] # <<>>
              /\ e[2][2][a][index + 1] = e[2][2][First][index + 1]

ReadOnly == Accessors \cup {"snapshot", "serialize", "hash"}

\* C19: get_index, get_nonce, get_balance, get_code, get_storage, get_storage_data,
\* account_to_dict, to_dict, snapshot, serialize and hash leave the state root, the
\* store and gas_consumed unchanged, also when the address queried is absent, so
\* hash() is the same before and after any of them.
C19_ReadsChangeNothing ==
    [][last'.op \in ReadOnly =>
          /\ state_root' = state_root
          /\ db' = db
          /\ gas_consumed' = gas_consumed
          /\ hash(Self') = hash(Self)
          /\ to_dict(Self', LedgerNext) = to_dict(Self, Ledger)]_vars

\* an accessor ran on an address absent from a ledger that holds another account,
\* after gas was charged
C19_Witness ==
    /\ last.op \in Accessors
    /\ Absent(Ledger, last.address)
    /\ state_root # BLANK_NODE
    /\ gas_consumed > 0

\* call c wrote only empty values: set_balance(a, 0), delta_balance(a, 0) or
\* set_storage_data(a, k, 0)
WritesEmpty(c) ==
    /\ c.op \in {"set_balance", "delta_balance", "set_storage_data"}
    /\ c.value = 0
    /\ c.ret

\* C20: set_balance(a, 0), delta_balance(a, 0) or set_storage_data(a, k, 0) on an
\* absent address a inserts an all-empty record at a: every accessor returns for
\* every address what it returned before, but the state trie has an entry at a, seen
\* in to_dict and in the state root; a rejected delta inserts nothing.
C20_EmptyRecordInserted ==
    [][\A a \in AddressArgs :
          (Absent(Ledger, a) /\ last'.address = a) =>
              /\ WritesEmpty(last') =>
                    /\ ViewOf(LedgerNext) = View
                    /\ ~Absent(LedgerNext, a)
                    /\ \A i \in 0..(ACCT_RLP_LENGTH - 1) : get_index(LedgerNext, a, i) = <<>>
                    /\ state_root' # state_root
                    /\ to_dict(Self', LedgerNext).state =
                          to_dict(Self, Ledger).state
                              \cup {<<encode_hex(Bin(a)), <<0, 0, <<>>, {}>>>>}
              /\ (last'.op = "delta_balance" /\ ~last'.ret) =>
                    /\ Absent(LedgerNext, a)
                    /\ state_root' = state_root
                    /\ db' = db]_vars

\* set_storage_data(a, k, 0) left an all-empty record at a beside another account
C20_Witness ==
    /\ last.op = "set_storage_data"
    /\ last.value = 0
    /\ ~Absent(Ledger, last.address)
    /\ \A i \in 0..(ACCT_RLP_LENGTH - 1) : get_index(Ledger, last.address, i) = <<>>
    /\ \E b \in Addresses : get_balance(Ledger, b) > 0

====
